---- MODULE Spec2Model ----
(***************************************************************************)
(* Reconciliation of a NamespacedRequest (provider-http): the external     *)
(* client of internal/controller/namespacedrequest bridges the namespaced  *)
(* resource to a Request, runs the shared engine on the bridged copy and   *)
(* bridges the result back.                                                *)
(*                                                                         *)
(* Errors are wrap chains: a sequence of messages, outermost first; the    *)
(* nil error is the empty chain.  Status.Error is the text err.Error()     *)
(* yields, the messages joined by ": " as github.com/pkg/errors does.      *)
(***************************************************************************)
EXTENDS Integers, Sequences, FiniteSets, TLC

\* ------------------------------------------------------------------ bounds
\* largest Failed value a resource carries before the first modelled call
MaxFailed == 2
\* the clock runs over 1..MaxTime
MaxTime == 2
\* probes around the success range are answered with the codes from
\* 200 - CodeMargin to 299 + CodeMargin
CodeMargin == 5
\* a resource carries at most MaxConfigs secret injection entries
MaxConfigs == 2

\* --------------------------------------------------------------- constants
errFailedToSendHttpRequest == "something went wrong"
errFailedToCheckIfUpToDate == "failed to check if request is up to date"
errFailedUpdateStatusConditions == "failed updating status conditions"
errGetLatestVersion == "failed to get the latest version of the resource"
errFailedUpdatingStatus == " failed updating status"
errExpectedResponseCheckType == "Type should be either DEFAULT, CUSTOM or empty"
ErrObjectNotFound == "object wasn't found"

ActionObserve == "OBSERVE"
ActionCreate == "CREATE"
ActionUpdate == "UPDATE"
ActionRemove == "REMOVE"
Actions == {ActionObserve, ActionCreate, ActionUpdate, ActionRemove}

MaxInt32 == 2147483647
MinInt32 == -MaxInt32 - 1

\* ------------------------------------------------------------------ errors
NIL == << >>

New(msg) == << msg >>

Wrap(err, msg) == IF err = NIL THEN NIL ELSE << msg >> \o err

RECURSIVE ErrorText(_)
ErrorText(err) ==
    IF Len(err) = 0 THEN ""
    ELSE IF Len(err) = 1 THEN err[1]
    ELSE err[1] \o ": " \o ErrorText(Tail(err))

\* ------------------------------------------------------------------- types
EmptyResponse == [StatusCode |-> 0, Body |-> "", Headers |-> ""]

EmptyMapping == [Method |-> "", Action |-> "", Body |-> "", URL |-> "", Headers |-> ""]

EmptyCache == [LastUpdated |-> 0, Response |-> EmptyResponse]

\* the zero value of NamespacedRequestStatus / RequestStatus
EmptyStatus ==
    [ResourceStatus |-> "",
     Response       |-> EmptyResponse,
     Cache          |-> EmptyCache,
     Failed         |-> 0,
     Error          |-> "",
     RequestDetails |-> EmptyMapping]

\* --------------------------------------------------- status setters (part_000)
\* an increment that counts one failure twice
Inc32_ByTwo(n) == IF n >= MaxInt32 - 1 THEN MinInt32 ELSE n + 2

Inc32(n) == IF n = MaxInt32 THEN MinInt32 ELSE n + 1

SetStatusCode(st, statusCode) ==
    [st EXCEPT !.Response.StatusCode = statusCode]

SetHeaders(st, headers) ==
    [st EXCEPT !.Response.Headers = headers]

SetBody(st, body) ==
    [st EXCEPT !.Response.Body = body]

SetError(st, err) ==
    [st EXCEPT !.Failed = Inc32(@),
               !.Error = IF err # NIL THEN ErrorText(err) ELSE @]

\* ResetFailures that forgets the message
ResetFailures_KeepsError(st) ==
    [st EXCEPT !.Failed = 0]

ResetFailures(st) ==
    [st EXCEPT !.Failed = 0, !.Error = ""]

\* SetRequestDetails with url and body in each other's place
SetRequestDetails_Swapped(st, url, method, body, headers) ==
    [st EXCEPT !.RequestDetails.Body = url,
               !.RequestDetails.URL = body,
               !.RequestDetails.Headers = headers,
               !.RequestDetails.Method = method]

SetRequestDetails(st, url, method, body, headers) ==
    [st EXCEPT !.RequestDetails.Body = body,
               !.RequestDetails.URL = url,
               !.RequestDetails.Headers = headers,
               !.RequestDetails.Method = method]

\* SetCache that leaves the timestamp alone
SetCache_NoTimestamp(st, statusCode, headers, body, t) ==
    [st EXCEPT !.Cache.Response.StatusCode = statusCode,
               !.Cache.Response.Headers = headers,
               !.Cache.Response.Body = body]

SetCache(st, statusCode, headers, body, t) ==
    [st EXCEPT !.Cache.Response.StatusCode = statusCode,
               !.Cache.Response.Headers = headers,
               !.Cache.Response.Body = body,
               !.Cache.LastUpdated = t]

SetConditions(st, c) == [st EXCEPT !.ResourceStatus = c]

Available == "Available"

\* ----------------------------------------------------------------- bridging
convertResponse(response) ==
    [StatusCode |-> response.StatusCode,
     Body       |-> response.Body,
     Headers    |-> response.Headers]

convertCache(cache) ==
    [LastUpdated |-> cache.LastUpdated,
     Response    |-> [StatusCode |-> cache.Response.StatusCode,
                      Body       |-> cache.Response.Body,
                      Headers    |-> cache.Response.Headers]]

convertMapping(mapping) ==
    [Method  |-> mapping.Method,
     Action  |-> mapping.Action,
     Body    |-> mapping.Body,
     URL     |-> mapping.URL,
     Headers |-> mapping.Headers]

\* the Status part of bridgeToRequest; the Spec part is carried by the call's
\* spec argument, which both resource kinds share field for field
bridgeToRequest(nsr) ==
    [ResourceStatus |-> nsr.ResourceStatus,
     Response       |-> convertResponse(nsr.Response),
     Cache          |-> convertCache(nsr.Cache),
     Failed         |-> nsr.Failed,
     Error          |-> nsr.Error,
     RequestDetails |-> convertMapping(nsr.RequestDetails)]

\* bridgeFromRequest that leaves the cache of the NamespacedRequest alone
bridgeFromRequest_KeepsCache(nsr, r) ==
    [ResourceStatus |-> r.ResourceStatus,
     Response       |-> [StatusCode |-> r.Response.StatusCode,
                         Body       |-> r.Response.Body,
                         Headers    |-> r.Response.Headers],
     Cache          |-> nsr.Cache,
     Failed         |-> r.Failed,
     Error          |-> r.Error,
     RequestDetails |-> [Method  |-> r.RequestDetails.Method,
                         Action  |-> r.RequestDetails.Action,
                         Body    |-> r.RequestDetails.Body,
                         URL     |-> r.RequestDetails.URL,
                         Headers |-> r.RequestDetails.Headers]]

bridgeFromRequest(nsr, r) ==
    [ResourceStatus |-> r.ResourceStatus,
     Response       |-> [StatusCode |-> r.Response.StatusCode,
                         Body       |-> r.Response.Body,
                         Headers    |-> r.Response.Headers],
     Cache          |-> [LastUpdated |-> r.Cache.LastUpdated,
                         Response    |-> [StatusCode |-> r.Cache.Response.StatusCode,
                                          Body       |-> r.Cache.Response.Body,
                                          Headers    |-> r.Cache.Response.Headers]],
     Failed         |-> r.Failed,
     Error          |-> r.Error,
     RequestDetails |-> [Method  |-> r.RequestDetails.Method,
                         Action  |-> r.RequestDetails.Action,
                         Body    |-> r.RequestDetails.Body,
                         URL     |-> r.RequestDetails.URL,
                         Headers |-> r.RequestDetails.Headers]]

\* ------------------------------------------------------------ resource spec
\* response codes the executor answers with
StatusCodes == {200, 300, 404}

BodyOf(code) == IF code < 300 THEN "{ok}" ELSE "{fail}"

Responses ==
    {[StatusCode |-> c, Body |-> BodyOf(c), Headers |-> "resp-hdr"] : c \in StatusCodes}

DefaultMethod(action) ==
    CASE action = ActionObserve -> "GET"
      [] action = ActionCreate  -> "POST"
      [] action = ActionUpdate  -> "PUT"
      [] action = ActionRemove  -> "DELETE"

\* a mapping of the spec: the templates of one action
MappingOf(action, method) ==
    [Method  |-> method,
     Action  |-> action,
     Body    |-> "body-" \o action,
     URL     |-> "url-" \o action,
     Headers |-> "req-hdr"]

CheckTypes == {"", "DEFAULT", "CUSTOM", "BOGUS"}

\* the methods a mapping of the action is written with: its usual method, and
\* for an update also POST
MethodChoices(action) ==
    IF action = ActionUpdate THEN {DefaultMethod(action), "POST"}
    ELSE {DefaultMethod(action)}

\* the specs a call on `action` is made with: the action's mapping is absent
\* or present
MappingChoices(action) ==
    {{}} \cup {{MappingOf(action, m)} : m \in MethodChoices(action)}

ObserveSpecs ==
    {[Mappings              |-> ms,
      ExpectedResponseCheck |-> [Type |-> e],
      IsRemovedCheck        |-> [Type |-> r]] :
        ms \in MappingChoices(ActionObserve), e \in CheckTypes, r \in CheckTypes}

DeploySpecs(action) ==
    {[Mappings              |-> ms,
      ExpectedResponseCheck |-> [Type |-> ""],
      IsRemovedCheck        |-> [Type |-> ""]] : ms \in MappingChoices(action)}

\* ------------------------------------------------------------- collaborators
errNoMapping == "mapping not found"
errRender == "failed to render request"
errBoom == "boom"
errObjectRemoved == "object has been removed"
errPredicate == "failed to evaluate expression"
errKube == "kube error"

\* the success range reaching one code too far
IsHTTPSuccess_Through300(code) == code >= 200 /\ code <= 300

IsHTTPSuccess(code) == code >= 200 /\ code < 300

IsHTTPError(code) == code >= 400 /\ code < 600

\* requestmapping.GetMapping: the mapping of the action, or an error
GetMapping(forProvider, action) ==
    IF \E m \in forProvider.Mappings : m.Action = action
    THEN [mapping |-> CHOOSE m \in forProvider.Mappings : m.Action = action, err |-> NIL]
    ELSE [mapping |-> EmptyMapping, err |-> New(errNoMapping)]

\* requestgen.GenerateValidRequestDetails: the rendered request, or a render
\* error when a reference of the templates does not resolve (resolves = FALSE)
GenerateValidRequestDetails(cr, mapping, resolves) ==
    IF resolves
    THEN [details |-> [Url |-> mapping.URL, Body |-> mapping.Body, Headers |-> mapping.Headers],
          err |-> NIL]
    ELSE [details |-> [Url |-> "", Body |-> "", Headers |-> ""], err |-> New(errRender)]

\* what the executor can answer: a response, or a transport error
SendOutcomes ==
    {[HttpResponse |-> r, err |-> NIL] : r \in Responses}
        \cup {[HttpResponse |-> EmptyResponse, err |-> New(errBoom)]}

\* http.Client.SendRequest: the HttpDetails of the exchange and the error
SendRequest(method, url, body, headers, outcome) ==
    [details |-> [HttpResponse |-> outcome.HttpResponse,
                  HttpRequest  |-> [Method |-> method, URL |-> url,
                                    Body |-> body, Headers |-> headers]],
     err |-> outcome.err]

\* what evaluating a CUSTOM expression yields
EvalOutcomes == {"true", "false", "error"}

\* observe.GetIsRemovedResponseCheck / GetIsUpToDateResponseCheck: the checker
\* of the configured kind, nil ("") for an unknown kind
GetResponseCheck(check) ==
    CASE check.Type \in {"", "DEFAULT"} -> "DEFAULT"
      [] check.Type = "CUSTOM"          -> "CUSTOM"
      [] OTHER                          -> ""

\* isRemoved checker: nil, the removed error, or an evaluation error
IsRemovedCheck(checker, details, eval) ==
    IF checker = "DEFAULT"
    THEN IF details.HttpResponse.StatusCode = 404 THEN New(errObjectRemoved) ELSE NIL
    ELSE CASE eval = "true"  -> New(errObjectRemoved)
           [] eval = "false" -> NIL
           [] OTHER          -> New(errPredicate)

\* isUpToDate checker: the result and an evaluation error
IsUpToDateCheck(checker, details, eval) ==
    IF checker = "DEFAULT"
    THEN [result |-> IsHTTPSuccess(details.HttpResponse.StatusCode), err |-> NIL]
    ELSE CASE eval = "true"  -> [result |-> TRUE, err |-> NIL]
           [] eval = "false" -> [result |-> FALSE, err |-> NIL]
           [] OTHER          -> [result |-> FALSE, err |-> New(errPredicate)]

\* ------------------------------------------------------------ status tracker
\* statushandler.NewStatusHandler
NewStatusHandler(resource, details, responseError) ==
    [resource |-> resource, details |-> details,
     responseError |-> responseError, reset |-> FALSE]

\* statushandler.ResetFailures: the reset is applied by SetRequestStatus
HandlerResetFailures(h) == [h EXCEPT !.reset = TRUE]

\* statushandler.SetRequestStatus: the status written and the error returned
SetRequestStatus(h, t) ==
    LET req == h.details.HttpRequest
        rsp == h.details.HttpResponse
        s1  == SetRequestDetails(h.resource, req.URL, req.Method, req.Body, req.Headers)
        s2  == IF h.responseError # NIL THEN SetError(s1, h.responseError) ELSE s1
        s3  == IF h.reset THEN ResetFailures(s2) ELSE s2
        s4  == IF h.responseError = NIL
               THEN SetCache(SetBody(SetHeaders(SetStatusCode(s3, rsp.StatusCode),
                                                rsp.Headers), rsp.Body),
                             rsp.StatusCode, rsp.Headers, rsp.Body, t)
               ELSE s3
    IN  [resource |-> s4, err |-> h.responseError]

\* ----------------------------------------------------------- secret patcher
\* how the secret store and the field extraction behave in a run of the patcher
PatchBehaviours == {"ok", "unreachable", "extractError"}

\* the patcher that loses the response it was handed when the write fails
ApplyResponseDataToSecrets_LosesResponse(response, behaviour, patched) ==
    [response |-> IF behaviour = "ok" THEN response ELSE EmptyResponse,
     patched  |-> patched + 1]

\* datapatcher.ApplyResponseDataToSecrets: best effort, returns nothing to its
\* caller; it is handed the response by reference and leaves it as it is,
\* whatever the store does; the run is counted
ApplyResponseDataToSecrets(response, behaviour, patched) ==
    [response |-> response, patched |-> patched + 1]

\* the keys of the secrets the injection configs write to, the paths they
\* read in a response body, and the values found there
SecretKeys == {"k1", "k2"}

BodyPaths == {"id", "token"}

FieldValues == {"a", "b"}

\* a body field that is not there
Absent == "<absent>"

\* secrets without any injected value
EmptySecrets == [k \in SecretKeys |-> ""]

\* the write that adds the extracted value to what the key holds
WriteSecretEntry_Appends(secrets, config, body) ==
    IF body[config.path] = Absent THEN secrets
    ELSE [secrets EXCEPT ![config.key] = @ \o body[config.path]]

\* one SecretInjectionConfig entry: the field at its path is written to its
\* key; an entry whose field is absent is skipped
WriteSecretEntry(secrets, config, body) ==
    IF body[config.path] = Absent THEN secrets
    ELSE [secrets EXCEPT ![config.key] = body[config.path]]

\* the secrets after ApplyResponseDataToSecrets went through the entries in
\* order; nothing is written when the store is unreachable or the extraction
\* fails
RECURSIVE SecretsAfterPatch(_, _, _, _)
SecretsAfterPatch(secrets, configs, body, behaviour) ==
    IF behaviour # "ok" \/ configs = << >> THEN secrets
    ELSE SecretsAfterPatch(WriteSecretEntry(secrets, Head(configs), body),
                           Tail(configs), body, behaviour)

\* ------------------------------------------------------------------ observe
ZeroHttpDetails ==
    [HttpResponse |-> EmptyResponse,
     HttpRequest  |-> [Method |-> "", URL |-> "", Body |-> "", Headers |-> ""]]

\* NewObserve with the synced flag lost
NewObserve_AlwaysSynced(details, resErr, synced) ==
    [Synced |-> TRUE, Details |-> details, ResponseError |-> resErr]

NewObserve(details, resErr, synced) ==
    [Synced |-> synced, Details |-> details, ResponseError |-> resErr]

FailedObserve ==
    [Synced |-> FALSE, Details |-> ZeroHttpDetails, ResponseError |-> NIL]

\* the validity test without the failed-POST exclusion
isObjectValidForObservation_IgnoresMethod(cr) ==
    cr.Response.StatusCode # 0

isObjectValidForObservation(cr) ==
    /\ cr.Response.StatusCode # 0
    /\ ~(cr.RequestDetails.Method = "POST" /\ IsHTTPError(cr.Response.StatusCode))

determineIfUpToDate(spec, details, responseErr, eval) ==
    LET responseChecker == GetResponseCheck(spec.ExpectedResponseCheck)
    IN  IF responseChecker = ""
        THEN [obs |-> FailedObserve,
              err |-> New("expectedResponseCheck." \o errExpectedResponseCheckType)]
        ELSE LET c == IsUpToDateCheck(responseChecker, details, eval)
             IN  IF c.err # NIL
                 THEN [obs |-> FailedObserve, err |-> c.err]
                 ELSE [obs |-> NewObserve(details, responseErr, c.result), err |-> NIL]

\* the removal check that never signals
determineIfRemoved_Skipped(spec, details, responseErr, eval) == NIL

determineIfRemoved(spec, details, responseErr, eval) ==
    LET responseChecker == GetResponseCheck(spec.IsRemovedCheck)
    IN  IF responseChecker = ""
        THEN New("isRemovedCheck." \o errExpectedResponseCheckType)
        ELSE IsRemovedCheck(responseChecker, details, eval)

\* isUpToDate: the observation and the error, with the requests sent (sent,
\* details) and the runs of the secret patcher (patched) of this call
isUpToDate(cr, spec, env) ==
    LET m == GetMapping(spec, ActionObserve)
        objectNotCreated == ~isObjectValidForObservation(cr)
        rd == GenerateValidRequestDetails(cr, m.mapping, env.resolves)
        sr == SendRequest(m.mapping.Method, rd.details.Url, rd.details.Body,
                          rd.details.Headers, env.outcome)
        rm == determineIfRemoved(spec, sr.details, sr.err, env.removedEval)
        ap == ApplyResponseDataToSecrets(sr.details.HttpResponse, env.patch, 0)
        pd == [sr.details EXCEPT !.HttpResponse = ap.response]
        up == determineIfUpToDate(spec, pd, sr.err, env.upToDateEval)
    IN  IF m.err # NIL
        THEN [obs |-> FailedObserve, err |-> m.err, sent |-> 0,
              details |-> ZeroHttpDetails, patched |-> 0]
        ELSE IF rd.err # NIL
        THEN [obs |-> FailedObserve,
              err |-> IF objectNotCreated THEN New(ErrObjectNotFound) ELSE rd.err,
              sent |-> 0, details |-> ZeroHttpDetails, patched |-> 0]
        ELSE IF ~IsHTTPSuccess(sr.details.HttpResponse.StatusCode) /\ objectNotCreated
        THEN [obs |-> FailedObserve, err |-> New(ErrObjectNotFound), sent |-> 1,
              details |-> sr.details, patched |-> 0]
        ELSE IF rm # NIL
        THEN [obs |-> FailedObserve, err |-> rm, sent |-> 1,
              details |-> sr.details, patched |-> 0]
        ELSE [obs |-> up.obs, err |-> up.err, sent |-> 1,
              details |-> pd, patched |-> ap.patched]

\* what a call leaves behind: the caller's object (cr), the stored object
\* (store), the bridged Request the engine worked on (bridged), the error, the
\* observation, and the requests sent, patcher runs and status updates issued
Outcome(cr, store, bridged, err, exists, upToDate, sent, details, patched, updates) ==
    [cr |-> cr, store |-> store, bridged |-> bridged, err |-> err,
     exists |-> exists, upToDate |-> upToDate, sent |-> sent,
     details |-> details, patched |-> patched, updates |-> updates]

\* the test that recognises no error as not-found
isNotFound_Never(err) == err # NIL /\ ErrorText(err) = ""

\* the test taking every error for not-found
isNotFound_AnyError(err) == err # NIL

\* Observe's test for the not-found error of isUpToDate
isNotFound(err) == err # NIL /\ ErrorText(err) = ErrObjectNotFound

\* the absent outcome that also counts a failure on the object and stores it
ResourceAbsent_CountsFailure(cr, stored, b0, o) ==
    LET c == SetError(cr, New(ErrObjectNotFound))
    IN  Outcome(c, c, b0, NIL, FALSE, FALSE, o.sent, o.details, o.patched, 1)

\* Observe's return for the not-found error: ResourceExists = false, no error,
\* the object and the stored object untouched
ResourceAbsent(cr, stored, b0, o) ==
    Outcome(cr, stored, b0, NIL, FALSE, FALSE, o.sent, o.details, o.patched, 0)

\* external.Observe on the caller's object cr; stored is the object in the
\* API server and latest what localKube.Get reads from it
\* a Get that leaves the object as the caller passed it in
localKubeGet_Stale(cr, latest) == cr

\* localKube.Get overwrites the object the caller holds with the stored one
localKubeGet(cr, latest) == latest

ObserveCall(cr, stored, latest, spec, env, t) ==
    LET b0  == bridgeToRequest(cr)
        o   == isUpToDate(b0, spec, env)
        cr1 == localKubeGet(cr, latest)
        b1  == bridgeToRequest(cr1)
        h0  == NewStatusHandler(b1, o.obs.Details, o.obs.ResponseError)
        h1  == IF o.obs.Synced THEN HandlerResetFailures(h0) ELSE h0
        h2  == [h1 EXCEPT !.resource = SetConditions(@, Available)]
        ss  == SetRequestStatus(h2, t)
        cr2 == SetConditions(bridgeFromRequest(cr1, ss.resource), Available)
    IN  IF isNotFound(o.err)
        THEN ResourceAbsent(cr, stored, b0, o)
        ELSE IF o.err # NIL
        THEN Outcome(cr, stored, b0, Wrap(o.err, errFailedToCheckIfUpToDate),
                     FALSE, FALSE, o.sent, o.details, o.patched, 0)
        ELSE IF ~env.getOk
        THEN Outcome(cr, stored, b0, Wrap(New(errKube), errGetLatestVersion),
                     FALSE, FALSE, o.sent, o.details, o.patched, 0)
        ELSE IF ss.err # NIL
        THEN Outcome(cr1, stored, ss.resource, Wrap(ss.err, errFailedUpdatingStatus),
                     FALSE, FALSE, o.sent, o.details, o.patched, 0)
        ELSE IF ~env.updateOk
        THEN Outcome(cr2, stored, ss.resource,
                     Wrap(New(errKube), errFailedUpdateStatusConditions),
                     FALSE, FALSE, o.sent, o.details, o.patched, 1)
        ELSE Outcome(cr2, cr2, ss.resource, NIL, TRUE, o.obs.Synced,
                     o.sent, o.details, o.patched, 1)

\* ------------------------------------------------------ create/update/delete
deployAction(cr, stored, spec, action, env, t) ==
    LET b0 == bridgeToRequest(cr)
        m  == GetMapping(spec, action)
        rd == GenerateValidRequestDetails(b0, m.mapping, env.resolves)
        sr == SendRequest(m.mapping.Method, rd.details.Url, rd.details.Body,
                          rd.details.Headers, env.outcome)
        ap == ApplyResponseDataToSecrets(sr.details.HttpResponse, env.patch, 0)
        pd == [sr.details EXCEPT !.HttpResponse = ap.response]
        h  == NewStatusHandler(b0, pd, sr.err)
        ss == SetRequestStatus(h, t)
        cr1 == bridgeFromRequest(cr, ss.resource)
    IN  IF m.err # NIL
        THEN Outcome(cr, stored, b0, NIL, FALSE, FALSE, 0, ZeroHttpDetails, 0, 0)
        ELSE IF rd.err # NIL
        THEN Outcome(cr, stored, b0, rd.err, FALSE, FALSE, 0, ZeroHttpDetails, 0, 0)
        ELSE IF ss.err # NIL
        THEN Outcome(cr, stored, ss.resource, ss.err, FALSE, FALSE, 1, pd,
                     ap.patched, 0)
        ELSE IF ~env.updateOk
        THEN Outcome(cr1, stored, ss.resource, New(errKube), FALSE, FALSE, 1,
                     pd, ap.patched, 1)
        ELSE Outcome(cr1, cr1, ss.resource, NIL, FALSE, FALSE, 1, pd,
                     ap.patched, 1)

\* the wrapping done with errors.New semantics: an error even around nil
Deploy_AlwaysError(cr, stored, spec, action, env, t) ==
    LET d == deployAction(cr, stored, spec, action, env, t)
    IN  [d EXCEPT !.err = << errFailedToSendHttpRequest >> \o @]

\* Create, Update and Delete running deployAction once more when it failed
Deploy_RetriesOnError(cr, stored, spec, action, env, t) ==
    LET d == deployAction(cr, stored, spec, action, env, t)
        e == deployAction(d.cr, d.store, spec, action, env, t)
    IN  IF d.err = NIL THEN d
        ELSE [e EXCEPT !.err = Wrap(@, errFailedToSendHttpRequest),
                       !.sent = d.sent + @]

\* Create, Update and Delete wrap what deployAction returns
Deploy(cr, stored, spec, action, env, t) ==
    LET d == deployAction(cr, stored, spec, action, env, t)
    IN  [d EXCEPT !.err = Wrap(@, errFailedToSendHttpRequest)]

\* ------------------------------------- NamespacedDisposableRequest (part_001)
\* the zero value of NamespacedDisposableRequestStatus
EmptyDisposableStatus ==
    [Response          |-> EmptyResponse,
     Failed            |-> 0,
     Error             |-> "",
     Synced            |-> FALSE,
     RequestDetails    |-> [Method |-> "", Body |-> "", URL |-> "", Headers |-> ""],
     LastReconcileTime |-> 0]

DisposableSetStatusCode(d, statusCode) ==
    [d EXCEPT !.Response.StatusCode = statusCode]

DisposableSetHeaders(d, headers) ==
    [d EXCEPT !.Response.Headers = headers]

DisposableSetBody(d, body) ==
    [d EXCEPT !.Response.Body = body]

\* SetError that records the message without counting the failure
DisposableSetError_NoCount(d, err) ==
    [d EXCEPT !.Error = IF err # NIL THEN ErrorText(err) ELSE @]

DisposableSetError(d, err) ==
    [d EXCEPT !.Failed = Inc32(@),
              !.Error = IF err # NIL THEN ErrorText(err) ELSE @]

\* ResetFailures that clears the count and keeps the message
DisposableResetFailures_KeepsError(d) ==
    [d EXCEPT !.Failed = 0]

DisposableResetFailures(d) ==
    [d EXCEPT !.Failed = 0, !.Error = ""]

DisposableSetSynced(d, status) ==
    [d EXCEPT !.Synced = status]

DisposableSetRequestDetails(d, url, method, body, headers) ==
    [d EXCEPT !.RequestDetails.Body = body,
              !.RequestDetails.URL = url,
              !.RequestDetails.Headers = headers,
              !.RequestDetails.Method = method]

DisposableSetLastReconcileTime(d, t) ==
    [d EXCEPT !.LastReconcileTime = t]

\* the request a disposable resource declares (Test_deployAction)
testForProvider ==
    [URL |-> "https://example-url", Method |-> "GET",
     Headers |-> "req-hdr", Body |-> "{key1}"]

\* utils.ErrStatusCode with the method and the code filled in
errStatusCode(method, code) ==
    New("HTTP " \o method \o " request failed with status code: " \o ToString(code))

\* deployAction of the disposable request, as Test_deployAction pins it down:
\* a transport error is returned and counted; a response with an HTTP error
\* status is recorded, counted and returned as a status-code error; any other
\* response is recorded and nil returned.  The tracker of 4.6 echoes the
\* request, stamps the reconcile time, and on a success status marks the
\* resource synced and resets its failures.
disposableDeployAction(d, forProvider, outcome, t) ==
    LET sr == SendRequest(forProvider.Method, forProvider.URL, forProvider.Body,
                          forProvider.Headers, outcome)
        rsp == sr.details.HttpResponse
        d0 == DisposableSetLastReconcileTime(
                  DisposableSetRequestDetails(d, forProvider.URL, forProvider.Method,
                                              forProvider.Body, forProvider.Headers), t)
        d1 == DisposableSetBody(DisposableSetHeaders(
                  DisposableSetStatusCode(d0, rsp.StatusCode), rsp.Headers), rsp.Body)
        sc == errStatusCode(forProvider.Method, rsp.StatusCode)
    IN  IF sr.err # NIL
        THEN [resource |-> DisposableSetError(d0, sr.err), err |-> sr.err,
              sent |-> 1, details |-> sr.details]
        ELSE IF IsHTTPError(rsp.StatusCode)
        THEN [resource |-> DisposableSetError(d1, sc), err |-> sc,
              sent |-> 1, details |-> sr.details]
        ELSE IF IsHTTPSuccess(rsp.StatusCode)
        THEN [resource |-> DisposableResetFailures(DisposableSetSynced(d1, TRUE)),
              err |-> NIL, sent |-> 1, details |-> sr.details]
        ELSE [resource |-> d1, err |-> NIL, sent |-> 1, details |-> sr.details]

\* -------------------------------------------------------------------- state
VARIABLES
    cr,     \* Status of the caller's NamespacedRequest when the last call returned
    store,  \* Status of the NamespacedRequest in the API server
    now,    \* the clock time.Now() reads
    last,   \* the last call: its inputs and what it returned
    dcr,    \* Status of the NamespacedDisposableRequest the reconciler holds
    secrets \* the secret store: the value under each key

vars == << cr, store, now, last, dcr, secrets >>

\* responses and requests a resource may carry from earlier reconciles
PriorResponses == {r \in Responses : r.StatusCode \in {200, 404}}

PriorRequests ==
    {[EmptyMapping EXCEPT !.Method = m.Method, !.Body = m.Body, !.URL = m.URL,
                          !.Headers = m.Headers] :
        m \in {MappingOf(ActionCreate, "POST"), MappingOf(ActionUpdate, "PUT")}}

PriorStatuses ==
    {EmptyStatus} \cup
    {[ResourceStatus |-> Available,
      Response       |-> r,
      Cache          |-> [LastUpdated |-> 1, Response |-> r],
      Failed         |-> f,
      Error          |-> e,
      RequestDetails |-> q] :
        r \in PriorResponses, f \in 0..MaxFailed,
        e \in {"", ErrorText(New(errBoom))}, q \in PriorRequests}

NoOutcome == [HttpResponse |-> EmptyResponse, err |-> NIL]

NoEnv ==
    [resolves |-> TRUE, outcome |-> NoOutcome, removedEval |-> "false",
     patch |-> "ok", upToDateEval |-> "false", getOk |-> TRUE, updateOk |-> TRUE]

NoSpec ==
    [Mappings |-> {}, ExpectedResponseCheck |-> [Type |-> ""],
     IsRemovedCheck |-> [Type |-> ""]]

\* the record of a call
Call(op, spec, env, pre, latest, t, r) ==
    [op |-> op, spec |-> spec, env |-> env, pre |-> pre, latest |-> latest,
     time |-> t, bridged |-> r.bridged, err |-> r.err, exists |-> r.exists,
     upToDate |-> r.upToDate, sent |-> r.sent, details |-> r.details,
     patched |-> r.patched, updates |-> r.updates]

\* no call has been made on the object the reconciler holds
NoCall(st, t) ==
    Call("none", NoSpec, NoEnv, st, st, t,
         Outcome(st, st, bridgeToRequest(st), NIL, FALSE, FALSE,
                 0, ZeroHttpDetails, 0, 0))

Init ==
    /\ store \in PriorStatuses
    /\ cr = store
    /\ now = 1
    /\ last = NoCall(store, 1)
    /\ dcr = EmptyDisposableStatus
    /\ secrets = EmptySecrets

\* ---------------------------------------------- what the collaborators answer
\* each answer is drawn only in the calls that ask for it
ResolveChoices(spec, action) ==
    IF GetMapping(spec, action).err = NIL THEN BOOLEAN ELSE {TRUE}

OutcomeChoices(spec, action, resolves) ==
    IF GetMapping(spec, action).err = NIL /\ resolves THEN SendOutcomes ELSE {NoOutcome}

RemovedEvalChoices(c, spec, env) ==
    LET o == isUpToDate(c, spec, env)
    IN  IF /\ o.sent = 1
           /\ ~(o.err # NIL /\ o.patched = 0 /\ o.err = New(ErrObjectNotFound))
           /\ GetResponseCheck(spec.IsRemovedCheck) = "CUSTOM"
        THEN EvalOutcomes ELSE {"false"}

\* the patcher of Observe runs once the removal check has passed
ObservePatchChoices(c, spec, env) ==
    IF isUpToDate(c, spec, env).patched = 1 THEN PatchBehaviours ELSE {"ok"}

\* the patcher of Create, Update and Delete runs after every dispatch
DeployPatchChoices(spec, action, resolves) ==
    IF GetMapping(spec, action).err = NIL /\ resolves
    THEN PatchBehaviours ELSE {"ok"}

UpToDateEvalChoices(c, spec, env) ==
    IF /\ isUpToDate(c, spec, env).patched = 1
       /\ GetResponseCheck(spec.ExpectedResponseCheck) = "CUSTOM"
    THEN EvalOutcomes ELSE {"false"}

GetChoices(c, spec, env) ==
    IF isUpToDate(c, spec, env).err = NIL THEN BOOLEAN ELSE {TRUE}

ObserveUpdateChoices(c, spec, env) ==
    LET o == isUpToDate(c, spec, env)
    IN  IF o.err = NIL /\ env.getOk /\ o.obs.ResponseError = NIL
        THEN BOOLEAN ELSE {TRUE}

DeployUpdateChoices(spec, action, env) ==
    IF /\ GetMapping(spec, action).err = NIL
       /\ env.resolves
       /\ env.outcome.err = NIL
    THEN BOOLEAN ELSE {TRUE}

\* ------------------------------------------------------------------ actions
\* time passes
Tick ==
    /\ last.op = "none"
    /\ now < MaxTime
    /\ now' = now + 1
    /\ last' = NoCall(store, now + 1)
    /\ UNCHANGED << cr, store, dcr, secrets >>

\* the call has returned: the reconciler requeues the resource and, for the
\* next pass, reads the object from the API server
Fetch ==
    /\ last.op # "none"
    /\ cr' = store
    /\ last' = NoCall(store, now)
    /\ UNCHANGED << store, now, dcr, secrets >>

\* Observe runs on the object the reconciler holds and returns
ObserveReturns ==
    /\ last.op \in {"none", "ObserveStarted"}
    /\ \E spec \in ObserveSpecs :
       \E resolves \in ResolveChoices(spec, ActionObserve) :
       \E outcome \in OutcomeChoices(spec, ActionObserve, resolves) :
       LET b  == bridgeToRequest(cr)
           e1 == [NoEnv EXCEPT !.resolves = resolves, !.outcome = outcome]
       IN  \E re \in RemovedEvalChoices(b, spec, e1) :
           \E pb \in ObservePatchChoices(b, spec, [e1 EXCEPT !.removedEval = re]) :
           LET e2 == [e1 EXCEPT !.removedEval = re, !.patch = pb]
           IN  \E ue \in UpToDateEvalChoices(b, spec, e2) :
               LET e3 == [e2 EXCEPT !.upToDateEval = ue]
               IN  \E g \in GetChoices(b, spec, e3) :
                   LET e4 == [e3 EXCEPT !.getOk = g]
                   IN  \E u \in ObserveUpdateChoices(b, spec, e4) :
                       LET env == [e4 EXCEPT !.updateOk = u]
                           r   == ObserveCall(cr, store, store, spec, env, now)
                       IN  /\ cr' = r.cr
                           /\ store' = r.store
                           /\ last' = Call("Observe", spec, env, cr, store, now, r)
                           /\ UNCHANGED << now, dcr, secrets >>

\* the reconciler calls Observe on the object it holds
Observe ==
    /\ last.op = "none"
    /\ ObserveReturns

\* the reconciler calls Create, Update or Delete on the object it holds
DeployStep(op, action) ==
    /\ last.op = "none"
    /\ \E spec \in DeploySpecs(action) :
       \E resolves \in ResolveChoices(spec, action) :
       \E outcome \in OutcomeChoices(spec, action, resolves) :
       \E pb \in DeployPatchChoices(spec, action, resolves) :
       LET e1 == [NoEnv EXCEPT !.resolves = resolves, !.outcome = outcome,
                              !.patch = pb]
       IN  \E u \in DeployUpdateChoices(spec, action, e1) :
           LET env == [e1 EXCEPT !.updateOk = u]
               r   == Deploy(cr, store, spec, action, env, now)
           IN  /\ cr' = r.cr
               /\ store' = r.store
               /\ last' = Call(op, spec, env, cr, cr, now, r)
               /\ UNCHANGED << now, dcr, secrets >>

Create == DeployStep("Create", ActionCreate)

Update == DeployStep("Update", ActionUpdate)

Delete == DeployStep("Delete", ActionRemove)

Next ==
    \/ Tick
    \/ Fetch
    \/ Observe
    \/ Create
    \/ Update
    \/ Delete

Spec == Init /\ [][Next]_vars

TypeOK ==
    /\ cr.Failed \in Int
    /\ store.Failed \in Int
    /\ now \in 1..MaxTime

\* ------------------------------------------------------------------- claims
IsDeploy == last.op \in {"Create", "Update", "Delete"}

ActionOf(op) ==
    CASE op = "Create" -> ActionCreate
      [] op = "Update" -> ActionUpdate
      [] op = "Delete" -> ActionRemove
      [] OTHER         -> ActionObserve

\* the call had a mapping for its action
Mapped == GetMapping(last.spec, ActionOf(last.op)).err = NIL

\* the call's request did not render
RenderFailed == last.op # "none" /\ Mapped /\ ~last.env.resolves

\* the executor answered the call's request with a transport error
TransportFailed == last.op # "none" /\ last.sent = 1 /\ last.env.outcome.err # NIL

\* the executor answered the call's request with a response
ResponseReceived == last.op # "none" /\ last.sent = 1 /\ last.env.outcome.err = NIL

\* the request the call dispatched is the one status echoes
EchoesRequest(st) ==
    /\ st.RequestDetails.Method = last.details.HttpRequest.Method
    /\ st.RequestDetails.URL = last.details.HttpRequest.URL
    /\ st.RequestDetails.Body = last.details.HttpRequest.Body
    /\ st.RequestDetails.Headers = last.details.HttpRequest.Headers

\* the observe call went as far as its up-to-date predicate, of a known kind
UpToDateEvaluated ==
    /\ last.op = "Observe" /\ last.patched = 1
    /\ GetResponseCheck(last.spec.ExpectedResponseCheck) # ""

\* what that predicate evaluated to
UpToDateResult ==
    IsUpToDateCheck(GetResponseCheck(last.spec.ExpectedResponseCheck),
                    last.details, last.env.upToDateEval)

\* C1: for Create, Update and Delete, when the executor returns a transport
\* error the call returns that error wrapped with the action-failure message and
\* the resource's Failed is its value before the call plus 1
C1_TransportErrorCounted ==
    (IsDeploy /\ TransportFailed) =>
        /\ last.err = Wrap(last.env.outcome.err, errFailedToSendHttpRequest)
        /\ cr.Failed = last.pre.Failed + 1

\* C2: when Observe completes with ResourceUpToDate = true, Failed is 0 and
\* Error is empty after the call, in the caller's object and in the stored one,
\* whatever they were before
C2_SyncedObserveClearsFailures ==
    (last.op = "Observe" /\ last.exists /\ last.upToDate) =>
        /\ cr.Failed = 0 /\ cr.Error = ""
        /\ store.Failed = 0 /\ store.Error = ""

C2_Witness ==
    /\ last.op = "Observe" /\ last.exists /\ last.upToDate
    /\ last.pre.Failed > 0 /\ last.pre.Error # ""
    /\ cr.Failed = 0

C4_RenderErrorCounted ==
    (IsDeploy /\ RenderFailed) =>
        /\ last.err = Wrap(New(errRender), errFailedToSendHttpRequest)
        /\ last.sent = 0
        /\ cr.Failed = last.pre.Failed + 1
        /\ cr.Error # ""

\* C5: whenever a call returns a render, transport or predicate-evaluation
\* error, the failure is already in the caller's status (Failed one higher, Error
\* set) and a status update has been issued
C5_FailurePersistedBeforeReturn ==
    (/\ last.op # "none" /\ last.err # NIL
     /\ \/ RenderFailed
        \/ TransportFailed
        \/ last.err = Wrap(New(errPredicate), errFailedToCheckIfUpToDate)) =>
        /\ cr.Failed = last.pre.Failed + 1
        /\ cr.Error # ""
        /\ last.updates >= 1

\* C6: an Observe call that meets no error and whose up-to-date predicate
\* evaluates to false reports ResourceExists = true, ResourceUpToDate = false
\* and leaves Failed and Error as they were before the call
C6_NotUpToDateKeepsFailures ==
    (/\ UpToDateEvaluated
     /\ last.env.outcome.err = NIL
     /\ UpToDateResult.err = NIL /\ ~UpToDateResult.result
     /\ last.env.getOk /\ last.env.updateOk) =>
        /\ last.err = NIL /\ last.exists /\ ~last.upToDate
        /\ cr.Failed = last.pre.Failed /\ cr.Error = last.pre.Error
        /\ store.Failed = last.pre.Failed /\ store.Error = last.pre.Error

C6_Witness ==
    /\ last.op = "Observe" /\ last.exists /\ ~last.upToDate
    /\ last.spec.ExpectedResponseCheck.Type = "CUSTOM"
    /\ last.details.HttpResponse.StatusCode = 200
    /\ last.env.upToDateEval = "false"
    /\ cr.Failed > 0 /\ cr.Error # ""

\* the call went on to write status: it got a response and, for Observe, the
\* drift evaluation ended without error and the object was read again
StatusWritten ==
    /\ ResponseReceived
    /\ last.op = "Observe" =>
           /\ UpToDateEvaluated /\ UpToDateResult.err = NIL
           /\ last.env.getOk

\* the API server served the reads and writes of the call
KubeOk == last.env.getOk /\ last.env.updateOk

C9_UnmappedActionIsNoOp ==
    (IsDeploy /\ ~Mapped) =>
        /\ last.err = NIL
        /\ last.sent = 0
        /\ last.patched = 0
        /\ last.updates = 0
        /\ cr = last.pre
        /\ store = last.pre

C9_Witness ==
    /\ IsDeploy /\ ~Mapped
    /\ last.err = NIL
    /\ last.pre.Failed > 0
    /\ cr = last.pre

\* C10: an Observe without a mapping for the observe action returns an error
\* and dispatches nothing, whatever the status; it does not report
\* ResourceExists = false with no error
C10_UnmappedObserveIsError ==
    (last.op = "Observe" /\ ~Mapped) =>
        /\ last.err = Wrap(New(errNoMapping), errFailedToCheckIfUpToDate)
        /\ last.sent = 0
        /\ ~last.exists
        /\ cr = last.pre /\ store = last.pre

C10_Witness ==
    /\ last.op = "Observe" /\ ~Mapped
    /\ last.pre.Response.StatusCode = 0
    /\ last.err # NIL

\* the object Observe saw had not been created, as isUpToDate computes it
ObjectNotCreated ==
    ~isObjectValidForObservation(bridgeToRequest(last.pre))

\* the request recorded in status is the one of the create mapping
RecordedCreateAttempt(st) ==
    st.RequestDetails.URL = MappingOf(ActionCreate, DefaultMethod(ActionCreate)).URL

\* C11: in an Observe that has its mapping, objectNotCreated is true exactly when no response was
\* ever recorded or the recorded request was a create attempt that ended in an
\* HTTP error status; a failed update recorded in status never makes it true
C11_NotCreatedOnlyAfterFailedCreate ==
    (last.op = "Observe" /\ Mapped) =>
        (ObjectNotCreated <=>
            \/ last.pre.Response.StatusCode = 0
            \/ /\ RecordedCreateAttempt(last.pre)
               /\ IsHTTPError(last.pre.Response.StatusCode))

\* the status Observe was called with makes objectNotCreated true: no response
\* recorded, or a POST recorded with a status of 400 or more
NotCreatedBefore ==
    \/ last.pre.Response.StatusCode = 0
    \/ /\ last.pre.RequestDetails.Method = "POST"
       /\ last.pre.Response.StatusCode >= 400

\* C12: when the observe request does not render, nothing is dispatched; if
\* objectNotCreated holds Observe returns ResourceExists = false and no error,
\* otherwise it returns the render error
C12_RenderFailureRouting ==
    (last.op = "Observe" /\ RenderFailed) =>
        /\ last.sent = 0
        /\ IF NotCreatedBefore
           THEN last.err = NIL /\ ~last.exists
           ELSE last.err = Wrap(New(errRender), errFailedToCheckIfUpToDate)

C12_Witness ==
    /\ last.op = "Observe" /\ RenderFailed
    /\ last.pre.RequestDetails.Method = "POST"
    /\ last.pre.Response.StatusCode = 404
    /\ last.err = NIL /\ ~last.exists /\ last.sent = 0

\* the probe of the observe call was dispatched and did not come back with a
\* success status (a transport error leaves the status at 0)
ProbeNotSuccess ==
    /\ last.op = "Observe" /\ last.sent = 1
    /\ ~(/\ last.env.outcome.HttpResponse.StatusCode >= 200
         /\ last.env.outcome.HttpResponse.StatusCode < 300)

\* C13: when the observe probe does not come back with a success status and
\* objectNotCreated holds, Observe returns ResourceExists = false and no error
\* whatever the kinds of the removal and up-to-date checks are (they are not
\* consulted, so not even an unknown kind is reported), and the secret patcher
\* is not run
C13_UnconfirmedProbeMeansAbsent ==
    (ProbeNotSuccess /\ NotCreatedBefore) =>
        /\ last.err = NIL
        /\ ~last.exists
        /\ last.patched = 0
        /\ last.updates = 0

C13_Witness ==
    /\ ProbeNotSuccess /\ NotCreatedBefore
    /\ last.env.outcome.HttpResponse.StatusCode = 404
    /\ last.spec.IsRemovedCheck.Type = "BOGUS"
    /\ last.spec.ExpectedResponseCheck.Type = "BOGUS"
    /\ last.err = NIL /\ ~last.exists /\ last.patched = 0

\* the observe call could not confirm an object that was not created: its
\* request did not render, or its probe did not come back with a success status
AbsentPath ==
    /\ last.op = "Observe" /\ Mapped /\ NotCreatedBefore
    /\ RenderFailed \/ ProbeNotSuccess

\* C14: whenever Observe reports ResourceExists = false it returns no error,
\* issues no status update, and the status (Response, Cache, Failed, Error,
\* RequestDetails), in the caller's object and in the stored one, is what it
\* was before the call
C14_AbsentLeavesStatusAlone ==
    /\ AbsentPath => (last.err = NIL /\ ~last.exists)
    /\ (last.op = "Observe" /\ last.err = NIL /\ ~last.exists) =>
           /\ cr = last.pre
           /\ store = last.latest
           /\ last.updates = 0

C14_Witness ==
    /\ AbsentPath /\ ProbeNotSuccess
    /\ last.err = NIL /\ ~last.exists
    /\ last.pre.Failed > 0 /\ last.pre.Error # ""
    /\ last.pre.Cache.Response.StatusCode = 404
    /\ last.details.HttpResponse.StatusCode = 300
    /\ cr = last.pre /\ store = last.pre

\* the observe probe of an object that counts as created was answered 404
\* under a DEFAULT removal check
RemovedProbe ==
    /\ last.op = "Observe" /\ last.sent = 1
    /\ ~NotCreatedBefore
    /\ last.env.outcome.err = NIL
    /\ last.env.outcome.HttpResponse.StatusCode = 404
    /\ last.spec.IsRemovedCheck.Type = "DEFAULT"

\* C15: with a created object and a DEFAULT removal check, a probe answered
\* 404 makes the removal predicate fire: Observe returns the removed error,
\* reporting neither ResourceExists = true with an up-to-date value nor
\* ResourceExists = false without error, and status stays as it was
C15_RemovedIsHardError ==
    RemovedProbe =>
        /\ last.err = Wrap(New(errObjectRemoved), errFailedToCheckIfUpToDate)
        /\ ~last.exists /\ ~last.upToDate
        /\ last.updates = 0
        /\ cr = last.pre

C15_Witness ==
    /\ RemovedProbe
    /\ last.pre.RequestDetails.Method = "POST"
    /\ last.pre.Response.StatusCode = 200
    /\ last.err # NIL
    /\ ErrorText(last.err) =
           "failed to check if request is up to date: object has been removed"

\* the removal predicate of the observe call signalled removed
RemovalSignalled ==
    /\ last.op = "Observe" /\ last.sent = 1
    /\ ~NotCreatedBefore
    /\ last.env.outcome.err = NIL
    /\ \/ /\ last.spec.IsRemovedCheck.Type \in {"", "DEFAULT"}
          /\ last.env.outcome.HttpResponse.StatusCode = 404
       \/ /\ last.spec.IsRemovedCheck.Type = "CUSTOM"
          /\ last.env.removedEval = "true"

\* C16: when the removal predicate of an Observe signals removed, the secret
\* patcher has been run over that response by the time the removed error is
\* returned
C16_PatcherRunsBeforeRemoved ==
    RemovalSignalled =>
        /\ last.err = Wrap(New(errObjectRemoved), errFailedToCheckIfUpToDate)
        /\ last.patched >= 1

\* the spec with every empty check kind written out as DEFAULT
WithDefaultKinds(spec) ==
    [spec EXCEPT
        !.ExpectedResponseCheck.Type = IF @ = "" THEN "DEFAULT" ELSE @,
        !.IsRemovedCheck.Type = IF @ = "" THEN "DEFAULT" ELSE @]

\* a check kind of the call is neither DEFAULT, CUSTOM nor empty
UnknownCheckKind ==
    \/ GetResponseCheck(last.spec.ExpectedResponseCheck) = ""
    \/ GetResponseCheck(last.spec.IsRemovedCheck) = ""

\* the error carries the message of an unknown check kind
IsCheckKindError(err) ==
    err # NIL /\
    err[Len(err)] \in {"expectedResponseCheck." \o errExpectedResponseCheckType,
                       "isRemovedCheck." \o errExpectedResponseCheckType}

\* the empty kinds of the observe call behave as DEFAULT: the call run again
\* with DEFAULT written out returns the same and leaves the same status
C17_EmptyKindIsDefault ==
    last.op = "Observe" =>
        LET r == ObserveCall(last.pre, last.latest, last.latest,
                             WithDefaultKinds(last.spec), last.env, last.time)
        IN  /\ r.cr = cr /\ r.store = store
            /\ r.err = last.err /\ r.exists = last.exists
            /\ r.upToDate = last.upToDate /\ r.sent = last.sent
            /\ r.patched = last.patched /\ r.updates = last.updates

\* C17: an Observe whose spec has a check kind other than DEFAULT, CUSTOM or
\* empty returns a configuration error without having dispatched any request,
\* and an empty kind behaves exactly like DEFAULT
C17_UnknownKindFailsBeforeDispatch ==
    /\ (last.op = "Observe" /\ Mapped /\ last.env.resolves /\ UnknownCheckKind) =>
           /\ IsCheckKindError(last.err)
           /\ last.sent = 0
    /\ C17_EmptyKindIsDefault

\* C18: when the executor answers the probe of an Observe with a transport
\* error, the call returns an error and Failed is its value before the call
\* plus 1, whatever the status was before, a status with no recorded response
\* included
C18_ObserveTransportErrorCounted ==
    (last.op = "Observe" /\ TransportFailed) =>
        /\ last.err # NIL
        /\ ~last.exists
        /\ cr.Failed = last.pre.Failed + 1

\* evaluating the removal or the up-to-date expression of the observe call
\* failed
PredicateEvaluationFailed ==
    /\ last.op = "Observe" /\ last.sent = 1
    /\ \/ /\ last.spec.IsRemovedCheck.Type = "CUSTOM"
          /\ last.env.removedEval = "error"
       \/ /\ last.spec.ExpectedResponseCheck.Type = "CUSTOM"
          /\ last.env.upToDateEval = "error"

\* both expressions of the observe call were evaluated, to false
PredicatesMerelyFalse ==
    /\ last.op = "Observe" /\ last.patched = 1
    /\ last.spec.IsRemovedCheck.Type = "CUSTOM"
    /\ last.env.removedEval = "false"
    /\ last.spec.ExpectedResponseCheck.Type = "CUSTOM"
    /\ last.env.upToDateEval = "false"
    /\ last.env.outcome.err = NIL
    /\ KubeOk

\* C19: an Observe in which the evaluation of the removal or up-to-date
\* predicate fails returns an error and leaves Failed at its value before the
\* call plus 1; one whose predicates merely evaluate to false returns no error
C19_PredicateErrorCounted ==
    /\ PredicateEvaluationFailed =>
           /\ last.err = Wrap(New(errPredicate), errFailedToCheckIfUpToDate)
           /\ cr.Failed = last.pre.Failed + 1
    /\ PredicatesMerelyFalse => last.err = NIL

\* the call of `last` made again with a secret store that takes the write
AsIfPatched ==
    LET env == [last.env EXCEPT !.patch = "ok"]
    IN  IF last.op = "Observe"
        THEN ObserveCall(last.pre, last.latest, last.latest, last.spec, env, last.time)
        ELSE Deploy(last.pre, last.latest, last.spec, ActionOf(last.op), env, last.time)

BoundaryCodes == (200 - CodeMargin)..(299 + CodeMargin)

\* an observe spec with a DEFAULT removal check and an up-to-date check of
\* kind k
BoundarySpec(k) ==
    [Mappings              |-> {MappingOf(ActionObserve, DefaultMethod(ActionObserve))},
     ExpectedResponseCheck |-> [Type |-> k],
     IsRemovedCheck        |-> [Type |-> "DEFAULT"]]

\* Observe whose probe is answered with a code around the success range
ObserveBoundary ==
    /\ last.op = "none"
    /\ \E code \in BoundaryCodes, k \in {"", "DEFAULT"}, g \in BOOLEAN :
       \E u \in IF g THEN BOOLEAN ELSE {TRUE} :
       LET spec == BoundarySpec(k)
           rsp  == [StatusCode |-> code, Body |-> BodyOf(code), Headers |-> "resp-hdr"]
           env  == [NoEnv EXCEPT !.outcome = [HttpResponse |-> rsp, err |-> NIL],
                                 !.getOk = g, !.updateOk = u]
           r    == ObserveCall(cr, store, store, spec, env, now)
       IN  /\ cr' = r.cr
           /\ store' = r.store
           /\ last' = Call("Observe", spec, env, cr, store, now, r)
           /\ UNCHANGED << now, dcr, secrets >>

SpecBoundary == Init /\ [][ObserveBoundary]_vars

\* C21: under a DEFAULT or empty up-to-date check, an Observe that reaches the
\* check reports ResourceUpToDate = true for every response status from 200
\* to 299 and false for every status outside that range
C21_DefaultCheckIsSuccessRange ==
    (/\ last.op = "Observe" /\ last.patched = 1
     /\ last.spec.ExpectedResponseCheck.Type \in {"", "DEFAULT"}
     /\ last.env.outcome.err = NIL
     /\ KubeOk) =>
        /\ last.err = NIL /\ last.exists
        /\ last.upToDate <=>
               /\ last.env.outcome.HttpResponse.StatusCode >= 200
               /\ last.env.outcome.HttpResponse.StatusCode <= 299

C21_Witness ==
    /\ last.op = "Observe" /\ last.patched = 1
    /\ last.spec.ExpectedResponseCheck.Type = ""
    /\ last.env.outcome.HttpResponse.StatusCode = 299
    /\ last.exists /\ last.upToDate
    /\ last.pre.Failed > 0 /\ cr.Failed = 0

\* ------------------------------------------- the disposable request's reconcile
\* codes the executor answers a disposable request with
DisposableCodes == {200, 300, 400, 404}

DisposableOutcomes ==
    {[HttpResponse |-> [StatusCode |-> c, Body |-> testForProvider.Body,
                        Headers |-> testForProvider.Headers],
      err |-> NIL] : c \in DisposableCodes}
        \cup {[HttpResponse |-> EmptyResponse, err |-> New(errBoom)]}

\* statuses a disposable resource may carry from earlier reconciles
DisposablePriorStatuses ==
    {EmptyDisposableStatus} \cup
    {d \in {[EmptyDisposableStatus EXCEPT !.Failed = f, !.Error = e,
                                          !.Response.StatusCode = c,
                                          !.LastReconcileTime = 1] :
                f \in 0..MaxFailed, e \in {"", ErrorText(New(errBoom))},
                c \in {200, 400}} :
        d.Failed = 0 => d.Error = ""}

InitDisposable ==
    /\ store = EmptyStatus
    /\ cr = store
    /\ now = 1
    /\ last = NoCall(store, 1)
    /\ dcr \in DisposablePriorStatuses
    /\ secrets = EmptySecrets

\* the record of a call on the disposable resource
DisposableCall(env, pre, t, r) ==
    [op |-> "DeployDisposable", env |-> env, pre |-> pre, time |-> t,
     err |-> r.err, sent |-> r.sent, details |-> r.details]

\* the reconciler calls deployAction on the disposable resource it holds
DeployDisposable ==
    /\ last.op = "none"
    /\ dcr.Failed <= MaxFailed
    /\ \E o \in DisposableOutcomes :
       LET env == [NoEnv EXCEPT !.outcome = o]
           r   == disposableDeployAction(dcr, testForProvider, o, now)
       IN  /\ dcr' = r.resource
           /\ last' = DisposableCall(env, dcr, now, r)
           /\ UNCHANGED << cr, store, now, secrets >>

NextDisposable ==
    \/ Tick
    \/ Fetch
    \/ DeployDisposable

SpecDisposable == InitDisposable /\ [][NextDisposable]_vars

\* the executor answered the disposable request with an HTTP error status
DisposableErrorStatus ==
    /\ last.op = "DeployDisposable"
    /\ last.env.outcome.err = NIL
    /\ last.env.outcome.HttpResponse.StatusCode >= 400
    /\ last.env.outcome.HttpResponse.StatusCode < 600

\* C22: when the executor answers the disposable request's deployAction with
\* an HTTP error status and no transport error, the call returns the
\* status-code error naming the method and the code, Failed is its value
\* before the call plus 1, Response holds that response's status code, body
\* and headers, and LastReconcileTime is the (non-zero) time of the call
C22_DisposableStatusCodeError ==
    DisposableErrorStatus =>
        /\ last.err = errStatusCode(testForProvider.Method,
                                    last.env.outcome.HttpResponse.StatusCode)
        /\ dcr.Failed = last.pre.Failed + 1
        /\ dcr.Error = ErrorText(last.err)
        /\ dcr.Response = last.env.outcome.HttpResponse
        /\ dcr.LastReconcileTime = last.time
        /\ dcr.LastReconcileTime # 0

C22_Witness ==
    /\ DisposableErrorStatus
    /\ last.pre = EmptyDisposableStatus
    /\ last.env.outcome.HttpResponse.StatusCode = 400
    /\ ErrorText(last.err) = "HTTP GET request failed with status code: 400"
    /\ dcr.Failed = 1
    /\ dcr.Response.StatusCode = 400

\* the request of a Create, Update or Delete rendered and was answered with a
\* 2xx response, and the API server took the status update
DeploySucceeded ==
    /\ IsDeploy /\ Mapped /\ last.env.resolves
    /\ last.env.outcome.err = NIL
    /\ last.env.outcome.HttpResponse.StatusCode >= 200
    /\ last.env.outcome.HttpResponse.StatusCode <= 299
    /\ last.env.updateOk

\* C23: a Create, Update or Delete whose request renders and is answered 2xx
\* with no transport error returns no error and leaves, in the caller's object
\* and in the stored one, Response and Cache.Response equal to the response
\* received, Cache.LastUpdated at the call time, RequestDetails equal to the
\* request just sent, and Failed as it was (0 when starting from an empty
\* status)
C23_DeploySuccessRecorded ==
    DeploySucceeded =>
        /\ last.err = NIL
        /\ last.sent = 1
        /\ cr.Response = last.env.outcome.HttpResponse
        /\ cr.Cache.Response = last.env.outcome.HttpResponse
        /\ cr.Cache.LastUpdated = last.time
        /\ cr.RequestDetails.Method = GetMapping(last.spec, ActionOf(last.op)).mapping.Method
        /\ cr.RequestDetails.URL = GetMapping(last.spec, ActionOf(last.op)).mapping.URL
        /\ cr.RequestDetails.Body = GetMapping(last.spec, ActionOf(last.op)).mapping.Body
        /\ cr.RequestDetails.Headers = GetMapping(last.spec, ActionOf(last.op)).mapping.Headers
        /\ cr.Failed = last.pre.Failed /\ cr.Error = last.pre.Error
        /\ last.pre = EmptyStatus => cr.Failed = 0
        /\ store = cr

C23_Witness ==
    /\ DeploySucceeded /\ last.op = "Create"
    /\ last.pre = EmptyStatus
    /\ last.time > 1
    /\ last.err = NIL
    /\ cr.Response.StatusCode = 200 /\ cr.Failed = 0
    /\ cr.RequestDetails.Method = "POST"
    /\ cr.Cache.LastUpdated = last.time

\* C24: every Observe, Create, Update or Delete dispatches at most one request:
\* exactly one when its mapping exists and its request renders, none otherwise;
\* a transport error or an error response is not followed by a second send
C24_AtMostOneRequest ==
    last.op \in {"Observe", "Create", "Update", "Delete"} =>
        /\ last.sent \in {0, 1}
        /\ last.sent = IF Mapped /\ last.env.resolves THEN 1 ELSE 0

C24_Witness ==
    /\ IsDeploy /\ TransportFailed
    /\ last.sent = 1
    /\ last.err # NIL

\* ------------------------------------------------------- the secret patcher
ConfigEntries == {[path |-> p, key |-> k] : p \in BodyPaths, k \in SecretKeys}

\* the SecretInjectionConfigs of a resource, in order
ConfigLists == UNION {[1..n -> ConfigEntries] : n \in 0..MaxConfigs}

\* response bodies: each path holds a value or is absent
ResponseBodies == [BodyPaths -> FieldValues \cup {Absent}]

InitSecrets ==
    /\ store = EmptyStatus
    /\ cr = store
    /\ now = 1
    /\ last = NoCall(store, 1)
    /\ dcr = EmptyDisposableStatus
    /\ secrets \in [SecretKeys -> FieldValues \cup {""}]

\* the patcher runs over a response body
ApplyOnce ==
    /\ last.op = "none"
    /\ \E configs \in ConfigLists, body \in ResponseBodies, b \in PatchBehaviours :
       /\ secrets' = SecretsAfterPatch(secrets, configs, body, b)
       /\ last' = [op |-> "Patch", configs |-> configs, body |-> body,
                   behaviour |-> b, pre |-> secrets, applied |-> 1,
                   first |-> SecretsAfterPatch(secrets, configs, body, b)]
    /\ UNCHANGED << cr, store, now, dcr >>

\* the patcher runs again over the same body with the same entries
ApplyAgain ==
    /\ last.op = "Patch" /\ last.applied = 1
    /\ secrets' = SecretsAfterPatch(secrets, last.configs, last.body, last.behaviour)
    /\ last' = [last EXCEPT !.applied = 2]
    /\ UNCHANGED << cr, store, now, dcr >>

NextSecrets ==
    \/ ApplyOnce
    \/ ApplyAgain

SpecSecrets == InitSecrets /\ [][NextSecrets]_vars

\* C25: after the same injection entries have been applied to the same
\* response body a second time, every secret key holds the value it held after
\* the first application
C25_SecretInjectionIdempotent ==
    (last.op = "Patch" /\ last.applied = 2) =>
        \A k \in SecretKeys : secrets[k] = last.first[k]

C25_Witness ==
    /\ last.op = "Patch" /\ last.applied = 2
    /\ last.behaviour = "ok"
    /\ Len(last.configs) = 2
    /\ last.configs[1].key = last.configs[2].key
    /\ last.body[last.configs[1].path] # Absent
    /\ last.body[last.configs[2].path] # Absent
    /\ last.body[last.configs[1].path] # last.body[last.configs[2].path]
    /\ last.pre # secrets
    /\ secrets = last.first

\* ------------------------------------------------ the life after a create
\* the status records a create request answered with a success status
CreateRecorded(st) ==
    /\ RecordedCreateAttempt(st)
    /\ st.RequestDetails.Method = DefaultMethod(ActionCreate)
    /\ st.Response.StatusCode >= 200 /\ st.Response.StatusCode <= 299

InitAfterCreate ==
    /\ store \in {st \in PriorStatuses : CreateRecorded(st)}
    /\ cr = store
    /\ now = 1
    /\ last = NoCall(store, 1)
    /\ dcr = EmptyDisposableStatus
    /\ secrets = EmptySecrets

\* after the create only Observe, Update and Delete are called
NextAfterCreate ==
    \/ Tick
    \/ Fetch
    \/ Observe
    \/ Update
    \/ Delete

SpecAfterCreate == InitAfterCreate /\ [][NextAfterCreate]_vars

\* C26: once a create request has recorded a success response, whatever
\* Observe, Update and Delete calls follow and however they are answered, no
\* Observe reports ResourceExists = false through the not-created shortcut
C26_CreatedNeverAbsentAgain ==
    ~(last.op = "Observe" /\ last.err = NIL /\ ~last.exists)

\* C27: across any sequence of reconcile calls a single call changes
\* Status.Failed in one of three ways only: it leaves it unchanged, adds
\* exactly 1 to it, or sets it to 0; and Failed is never negative
C27_FailedChangesByStep ==
    /\ dcr.Failed >= 0
    /\ last.op = "DeployDisposable" =>
          \/ dcr.Failed = last.pre.Failed
          \/ dcr.Failed = last.pre.Failed + 1
          \/ dcr.Failed = 0

\* a call on a resource that had already failed once counted one more failure
C27_Witness ==
    /\ last.op = "DeployDisposable"
    /\ last.pre.Failed = 1
    /\ dcr.Failed = 2

\* the same three ways on the NamespacedRequest and on the Request the engine
\* worked on: after a call, Failed is what the object held before the call,
\* one more, or 0
NamespacedFailedChangesByStep ==
    /\ cr.Failed >= 0
    /\ store.Failed >= 0
    /\ last.op # "none" =>
          /\ cr.Failed \in {last.latest.Failed, last.latest.Failed + 1, 0}
          /\ last.bridged.Failed \in
                 {last.latest.Failed, last.latest.Failed + 1, 0}

\* ---------------------------------------------------------------------------
\* The status setters on their own: any sequence of SetError and ResetFailures
\* on a NamespacedRequest and on a NamespacedDisposableRequest that start with
\* the empty status.

\* the error arguments of SetError; NIL is the nil error
SetterErrors == {NIL, New(errBoom), New(errFailedToSendHttpRequest), New(errKube)}

SetterCall(op, pre) == [NoCall(EmptyStatus, 1) EXCEPT !.op = op, !.pre = pre]

InitSetters ==
    /\ cr = EmptyStatus
    /\ store = EmptyStatus
    /\ now = 1
    /\ last = NoCall(EmptyStatus, 1)
    /\ dcr = EmptyDisposableStatus
    /\ secrets = EmptySecrets

NamespacedSetError ==
    /\ cr.Failed <= MaxFailed
    /\ \E err \in SetterErrors : cr' = SetError(cr, err)
    /\ last' = SetterCall("SetError", cr)
    /\ UNCHANGED << store, now, dcr, secrets >>

NamespacedResetFailures ==
    /\ cr' = ResetFailures(cr)
    /\ last' = SetterCall("ResetFailures", cr)
    /\ UNCHANGED << store, now, dcr, secrets >>

DisposableSetErrorCall ==
    /\ dcr.Failed <= MaxFailed
    /\ \E err \in SetterErrors : dcr' = DisposableSetError(dcr, err)
    /\ last' = SetterCall("DisposableSetError", dcr)
    /\ UNCHANGED << cr, store, now, secrets >>

DisposableResetFailuresCall ==
    /\ dcr' = DisposableResetFailures(dcr)
    /\ last' = SetterCall("DisposableResetFailures", dcr)
    /\ UNCHANGED << cr, store, now, secrets >>

NextSetters ==
    \/ NamespacedSetError
    \/ NamespacedResetFailures
    \/ DisposableSetErrorCall
    \/ DisposableResetFailuresCall

SpecSetters == InitSetters /\ [][NextSetters]_vars

\* C28: in every status reached from the empty status through SetError and
\* ResetFailures, with any error argument and nil among them, Failed = 0
\* implies that Error is the empty string: a message is only ever present
\* together with Failed >= 1
C28_NoMessageWithoutFailure ==
    /\ cr.Failed = 0 => cr.Error = ""
    /\ dcr.Failed = 0 => dcr.Error = ""
    /\ cr.Error # "" => cr.Failed >= 1
    /\ dcr.Error # "" => dcr.Failed >= 1

\* ResetFailures has just cleared a status that carried a message, while the
\* other resource, after SetError(nil), counts a failure without a message
C28_Witness ==
    /\ last.op = "DisposableResetFailures"
    /\ last.pre.Error # ""
    /\ last.pre.Failed >= 1
    /\ dcr.Failed = 0
    /\ cr.Failed >= 1
    /\ cr.Error = ""

\* the status fields the engine reads and writes through the adapter
AdapterFields == {"Response", "Cache", "Failed", "Error", "RequestDetails"}

\* the engine changed field f on the Request it was handed
EngineChanged(f) ==
    /\ last.op # "none"
    /\ last.bridged[f] # bridgeToRequest(last.latest)[f]

\* bridging a NamespacedRequest to a Request and back leaves the fields alone
BridgeRoundTrip ==
    \A f \in AdapterFields :
        /\ bridgeFromRequest(cr, bridgeToRequest(cr))[f] = cr[f]
        /\ bridgeFromRequest(store, bridgeToRequest(store))[f] = store[f]

\* C29: the namespaced adapter loses nothing the engine reads or writes:
\* bridgeFromRequest of bridgeToRequest leaves Response, Cache, Failed, Error
\* and RequestDetails of the NamespacedRequest unchanged, and on every
\* deployAction or Observe path on which the engine changed one of these
\* fields on the bridged Request, the NamespacedRequest carries the same
\* change when the call returns
C29_AdapterLosesNothing ==
    /\ BridgeRoundTrip
    /\ \A f \in AdapterFields :
           EngineChanged(f) => cr[f] = bridgeFromRequest(cr, last.bridged)[f]

\* ---------------------------------------------------------------------------
\* Observe with another writer: between the start of Observe, which works on
\* the object the reconciler read earlier, and localKube.Get, another client
\* of the API server persists a different Failed and Error.

errOtherWriter == "written by another client"

\* Observe has been called and its probe is in flight
ObserveStart ==
    /\ last.op = "none"
    /\ last' = [NoCall(store, now) EXCEPT !.op = "ObserveStarted", !.pre = cr]
    /\ UNCHANGED << cr, store, now, dcr, secrets >>

\* another client counts a failure on the stored object, or clears its failures
OtherWriter ==
    /\ last.op = "ObserveStarted"
    /\ \/ /\ store.Failed <= MaxFailed
          /\ store' = SetError(store, New(errOtherWriter))
       \/ store' = ResetFailures(store)
    /\ store' # store
    /\ UNCHANGED << cr, now, last, dcr, secrets >>

\* the probe has returned: Observe reads the stored object and finishes
ObserveReturn ==
    /\ last.op = "ObserveStarted"
    /\ ObserveReturns

\* the reconciler requeues the resource and reads it again
Requeue ==
    /\ last.op \notin {"none", "ObserveStarted"}
    /\ Fetch

NextConcurrent ==
    \/ Requeue
    \/ ObserveStart
    \/ OtherWriter
    \/ ObserveReturn

SpecConcurrent == Init /\ [][NextConcurrent]_vars

\* C30: Observe applies its status changes to the copy of the resource read
\* from the store after the probe returned and not to the object it was called
\* with: when another writer persisted a different Failed or Error in between,
\* the status Observe writes holds the values read back (or the cleared values
\* of a synced observation), and an Observe that writes nothing leaves the
\* other writer's values in the store
C30_ObserveWritesOnLatest ==
    last.op = "Observe" =>
        /\ last.updates = 0 => store = last.latest
        /\ (last.err = NIL /\ last.exists) =>
              /\ store = cr
              /\ ~last.upToDate =>
                    /\ store.Failed = last.latest.Failed
                    /\ store.Error = last.latest.Error
              /\ last.upToDate => (store.Failed = 0 /\ store.Error = "")

\* an observation that is not in sync wrote its status over an object whose
\* Failed and Error another writer had changed since the call started
C30_Witness ==
    /\ last.op = "Observe"
    /\ last.err = NIL
    /\ last.exists
    /\ ~last.upToDate
    /\ last.pre.Failed # last.latest.Failed
    /\ last.pre.Error # last.latest.Error
    /\ store.Failed = last.latest.Failed
    /\ store.Error = last.latest.Error

====
